---------------------------- MODULE Spec2Model ----------------------------
(***************************************************************************)
(* Model of the two Notion synchronisation scripts of this repository:     *)
(*   src/Data_Extractor.py  (read-only variant: export cards with an id)   *)
(*   src/Ingestor.py        (write-back variant: write the id back to the  *)
(*                           card, verify it, export the verified cards)   *)
(* Texts are sequences of one-character strings, so that the regular       *)
(* expression, the join of rich-text spans, the hyphen stripping of the    *)
(* link and the trailing-segment extraction are computed character by      *)
(* character.  Python's None for a text (and the empty string, which the   *)
(* code treats alike in every truth test) is the empty sequence.           *)
(***************************************************************************)
EXTENDS Integers, Sequences, FiniteSets, TLC

VARIABLES
    variant,        \* which script runs: "readonly" or "writeback"
    remote,         \* the Notion database: [field, blocks], per card id
    csv,            \* the output file: NoFile or its sequence of data rows
    run,            \* number of the current invocation of main()
    pc,             \* position of main() / extract_card_info()
    loc,            \* locals of main(): start_cursor, all_card_info, processed_ids, total_cards
    page,           \* database_items of the current loop iteration and the loop index in it
    item,           \* locals of the current iteration of extract_card_info's for loop
    bar,            \* tqdm progress bar: n, total, closed
    console,        \* the line printed last in this run
    obs,            \* observation of the run: calls issued, entries passed, outcome of the last entry
    ex              \* harness applying the two extractors to one block sequence

vars == <<variant, remote, csv, run, pc, loc, page, item, bar, console, obs, ex>>

(***************************************************************************)
(* Bounds of the model.                                                    *)
(***************************************************************************)
MaxRuns == 2          \* successive invocations of main()
MaxPages == 2         \* non-empty listing responses over the runs
MaxBlocks == 2        \* blocks in a block sequence handed to the extractors

(***************************************************************************)
(* Texts.                                                                  *)
(***************************************************************************)
None == <<>>

HexChars == {"0", "1", "2", "3", "4", "5", "6", "7", "8", "9",
             "a", "b", "c", "d", "e", "f", "A", "B", "C", "D", "E", "F"}

\* \w of Python's re for the characters the model uses.
WordChars == HexChars \cup
            {"g", "h", "i", "j", "k", "l", "m", "n", "o", "p", "q", "r", "s", "t",
             "u", "v", "w", "x", "y", "z", "G", "H", "I", "J", "K", "L", "M", "N",
             "O", "P", "Q", "R", "S", "T", "U", "V", "W", "X", "Y", "Z", "_"}

RECURSIVE Repeat(_, _)
Repeat(x, n) == IF n = 0 THEN <<>> ELSE <<x>> \o Repeat(x, n - 1)

\* ''.join(parts)
RECURSIVE Join(_)
Join(parts) == IF parts = <<>> THEN <<>> ELSE Head(parts) \o Join(Tail(parts))

\* r'\b[a-fA-F0-9]{8}-[a-fA-F0-9]{4}-[a-fA-F0-9]{4}-[a-fA-F0-9]{4}-[a-fA-F0-9]{12}\b'
\* as the sequence of its character classes between the two \b.
org_id_pattern ==
    Repeat("hex", 8) \o <<"-">> \o Repeat("hex", 4) \o <<"-">> \o Repeat("hex", 4)
        \o <<"-">> \o Repeat("hex", 4) \o <<"-">> \o Repeat("hex", 12)

IsWordAt(text, i) == i >= 1 /\ i <= Len(text) /\ text[i] \in WordChars

\* \b between positions i and i+1 of text (i = 0: the start, i = Len: the end).
WordBoundary(text, i) == IsWordAt(text, i) # IsWordAt(text, i + 1)

ClassMatches(cls, c) == IF cls = "hex" THEN c \in HexChars ELSE c = cls

\* The pattern matches text starting at position s.
MatchesAt(text, s) ==
    /\ s >= 1
    /\ s + Len(org_id_pattern) - 1 <= Len(text)
    /\ WordBoundary(text, s - 1)
    /\ \A k \in 1..Len(org_id_pattern) : ClassMatches(org_id_pattern[k], text[s + k - 1])
    /\ WordBoundary(text, s + Len(org_id_pattern) - 1)

MatchStartsFrom(text, from) == {s \in from..Len(text) : MatchesAt(text, s)}

Leftmost(S) == CHOOSE s \in S : \A t \in S : s <= t

\* re.search(org_id_pattern, text), then match.group(0); None when there is no match.
re_search(text) ==
    LET S == MatchStartsFrom(text, 1)
    IN  IF S = {} THEN None
        ELSE SubSeq(text, Leftmost(S), Leftmost(S) + Len(org_id_pattern) - 1)

\* re.findall(org_id_pattern, text): the non-overlapping matches, left to right.
RECURSIVE FindAllFrom(_, _)
FindAllFrom(text, from) ==
    LET S == MatchStartsFrom(text, from)
    IN  IF S = {} THEN <<>>
        ELSE LET s == Leftmost(S)
             IN  <<SubSeq(text, s, s + Len(org_id_pattern) - 1)>>
                     \o FindAllFrom(text, s + Len(org_id_pattern))

\* The matches listed right to left.
re_findall_RightToLeft(text) ==
    LET m == FindAllFrom(text, 1)
    IN  [i \in 1..Len(m) |-> m[Len(m) + 1 - i]]

re_findall(text) == FindAllFrom(text, 1)

(***************************************************************************)
(* Identifier extractors.                                                  *)
(***************************************************************************)
RecognizedTypes ==
    {"paragraph", "heading_1", "heading_2", "heading_3", "bulleted_list_item",
     "numbered_list_item", "to_do", "toggle", "callout", "quote"}

BlockText(block) == Join(block.rich_text)

\* The extractor without the test of the block type.
RECURSIVE extract_org_id_from_blocks_AnyType(_)
extract_org_id_from_blocks_AnyType(blocks) ==
    IF blocks = <<>> THEN None
    ELSE LET match == re_search(BlockText(Head(blocks)))
         IN  IF match # None THEN match
             ELSE extract_org_id_from_blocks_AnyType(Tail(blocks))

\* Data_Extractor.extract_org_id_from_blocks, on blocks.get('results', []).
RECURSIVE extract_org_id_from_blocks_DE(_)
extract_org_id_from_blocks_DE(blocks) ==
    IF blocks = <<>> THEN None
    ELSE LET block == Head(blocks)
             match == re_search(BlockText(block))
         IN  IF block.type \in RecognizedTypes /\ match # None
             THEN match
             ELSE extract_org_id_from_blocks_DE(Tail(blocks))

\* Ingestor.extract_org_id_from_blocks, on blocks.get('results', []).
RECURSIVE extract_org_id_from_blocks_IN(_)
extract_org_id_from_blocks_IN(blocks) ==
    IF blocks = <<>> THEN None
    ELSE LET block == Head(blocks)
             matches == re_findall(BlockText(block))
         IN  IF block.type \in RecognizedTypes /\ matches # <<>>
             THEN matches[1]
             ELSE extract_org_id_from_blocks_IN(Tail(blocks))

(***************************************************************************)
(* Input texts.                                                            *)
(***************************************************************************)
UA == <<"a", "1", "b", "2", "c", "3", "d", "4", "-", "e", "5", "f", "6", "-",
        "7", "8", "9", "0", "-", "a", "b", "c", "d", "-",
        "e", "f", "1", "2", "3", "4", "5", "6", "7", "8", "9", "0">>
UB == <<"0", "F", "0", "E", "0", "D", "0", "C", "-", "1", "a", "2", "b", "-",
        "3", "c", "4", "d", "-", "5", "e", "6", "f", "-",
        "A", "1", "B", "2", "C", "3", "D", "4", "E", "5", "F", "6">>
SeeRef == <<"s", "e", "e", " ", "r", "e", "f", " ">>
ForDetails == <<" ", "f", "o", "r", " ", "d", "e", "t", "a", "i", "l", "s">>
UAHead == SubSeq(UA, 1, 18)
UATail == SubSeq(UA, 19, Len(UA))

\* Rich texts (sequences of plain_text runs) given to the extractors.
RichTexts ==
    { <<>>,
      <<SeeRef>>,
      <<SeeRef, UA, ForDetails>>,      \* the example of the spec
      <<UAHead, UATail>>,              \* one identifier over two runs of a block
      <<UAHead>>,
      <<UATail>>,
      <<UB, <<" ">>, UA>>,             \* two identifiers in one block
      <<UA, <<",">>, UB>>,
      <<<<"f">>, UA>>,                 \* no \b before the first group
      <<UA, <<"0">>>>,                 \* no \b after the last group
      <<<<"_">>, UB>>,
      <<UA, <<"-">>, UB>>,
      <<<<"f">>, UA, <<" ">>, UB>> }

BlockTypes == {"paragraph", "quote", "code"}

Blocks == [type : BlockTypes, rich_text : RichTexts]

RECURSIVE SeqsUpTo(_, _)
SeqsUpTo(S, n) ==
    IF n = 0 THEN {<<>>}
    ELSE LET shorter == SeqsUpTo(S, n - 1)
         IN  shorter \cup {Append(q, x) : q \in {r \in shorter : Len(r) = n - 1}, x \in S}

BlockSeqs == SeqsUpTo(Blocks, MaxBlocks)

(***************************************************************************)
(* The remote database and the responses of its API.                       *)
(***************************************************************************)
Id1 == <<"a", "-", "1">>
Id2 == <<"b", "-", "2">>
Ids == {Id1, Id2}

NoCursor == ""                      \* next_cursor null: falsy in "if start_cursor"

\* The properties of a card other than 'ORGA ID*': Id1 has a title-typed
\* property (two runs of text), Id2 has none.
TitleProperty(id) ==
    IF id = Id1 THEN [present |-> TRUE, title |-> <<<<"C", "a", "r", "d">>, <<" ", "1">>>>]
    ELSE [present |-> FALSE, title |-> <<>>]

\* Block sequences a card's page may hold.
WithIdentifier ==
    <<[type |-> "code", rich_text |-> <<UA>>],
      [type |-> "quote", rich_text |-> <<UB, <<" ">>, UA>>]>>
WithoutIdentifier ==
    <<[type |-> "paragraph", rich_text |-> <<SeeRef>>],
      [type |-> "code", rich_text |-> <<UA>>]>>
WithExample == <<[type |-> "paragraph", rich_text |-> <<SeeRef, UA, ForDetails>>]>>

\* The databases before the first run: the page of Id1 holds an identifier
\* and its 'ORGA ID*' is empty; the page of Id2 holds one or none, and its
\* 'ORGA ID*' is empty or filled.
InitialRemotes ==
    {[field |-> (Id1 :> <<>>) @@ (Id2 :> f),
      blocks |-> (Id1 :> WithIdentifier) @@ (Id2 :> b)] :
        f \in {<<>>, <<UB>>}, b \in {WithoutIdentifier, WithExample}}

\* One element of 'results' of a database query: the card as it is now.
ListedItem(id) ==
    [id |-> id, orga_rich_text |-> remote.field[id], title_property |-> TitleProperty(id)]

\* The pages a query may list (a card at most once in a page).
PageChoices == {<<>>, <<Id1>>, <<Id1, Id2>>}

\* has_more with next_cursor: a null cursor when there is no more, a cursor
\* when there is.  What a query lists does not depend on the cursor sent.
Continuations == {<<FALSE, NoCursor>>, <<TRUE, "cur">>}

\* The responses the database query may give: an error status, or a page of
\* cards with any continuation.  After MaxPages non-empty pages only empty
\* pages follow.
ErrorBody == [object |-> "error"]

QueryResponses ==
    {[status |-> 500, body |-> ErrorBody]}
    \cup
    {[status |-> 200,
      body |-> [results |-> [i \in 1..Len(q) |-> ListedItem(q[i])],
                has_more |-> k[1], next_cursor |-> k[2]]] :
        q \in {r \in PageChoices : obs.pages < MaxPages \/ r = <<>>},
        k \in Continuations}

\* Responses of the initial query, of which the code reads only the status
\* and 'total', a key the list object of the API does not have.
InitialResponses ==
    {[status |-> 500, body |-> ErrorBody], [status |-> 200, body |-> [object |-> "list"]]}

\* initial_response.get('total', 0)
GetTotal(json) == IF "total" \in DOMAIN json THEN json.total ELSE 0

BlocksResponses(id) ==
    {[status |-> 200, body |-> [results |-> remote.blocks[id]]],
     [status |-> 500, body |-> ErrorBody]}

\* What a PATCH of 'ORGA ID*' may do: fail with an error status, or answer
\* 200 having stored the value (as one run of text, or as two), having stored
\* nothing, or having stored something else.
UpdateEffects == {"error", "commit", "split", "drop", "mangle"}

UpdateResponse(effect) == [status |-> IF effect = "error" THEN 400 ELSE 200]

FieldAfterUpdate(old, orga_id, effect) ==
    CASE effect = "commit" -> <<orga_id>>
      [] effect = "split" -> <<SubSeq(orga_id, 1, 8), SubSeq(orga_id, 9, Len(orga_id))>>
      [] effect = "mangle" -> <<SubSeq(orga_id, 1, 8)>>
      [] OTHER -> old

PageResponses(id) ==
    {[status |-> 200, body |-> [orga_rich_text |-> remote.field[id]]],
     [status |-> 404, body |-> ErrorBody]}

(***************************************************************************)
(* The output file.                                                        *)
(***************************************************************************)
NoFile == [exists |-> FALSE, rows |-> <<>>]

LinkPrefix == <<"h", "t", "t", "p", "s", ":", "/", "/", "w", "w", "w", ".",
                "n", "o", "t", "i", "o", "n", ".", "s", "o", "/">>
TitleNotFound == <<"T", "i", "t", "l", "e", " ", "n", "o", "t", " ",
                   "f", "o", "u", "n", "d">>

\* page_id.replace('-', '')
RECURSIVE RemoveHyphens(_)
RemoveHyphens(s) ==
    IF s = <<>> THEN <<>>
    ELSE (IF Head(s) = "-" THEN <<>> ELSE <<Head(s)>>) \o RemoveHyphens(Tail(s))

\* f"https://www.notion.so/{page_id.replace('-', '')}"
CardLink(id) == LinkPrefix \o RemoveHyphens(id)

\* Series.str.extract(r'([^/]+)$')[0] for one Link: the text after the last
\* '/', NaN (here None) when the Link ends with '/'.
TrailingSegment(link) ==
    LET slashes == {i \in 1..Len(link) : link[i] = "/"}
        last == IF slashes = {} THEN 0 ELSE CHOOSE i \in slashes : \A j \in slashes : j <= i
    IN  SubSeq(link, last + 1, Len(link))

\* processed_ids of Ingestor.main
LoadProcessedIds(file) ==
    IF file.exists THEN {TrailingSegment(file.rows[i].Link) : i \in 1..Len(file.rows)}
    ELSE {}

Row(link, title, org_id) ==
    [Link |-> link, CardTitle |-> title, OrgID |-> org_id, Source |-> "Corpus"]

\* Files that may lie at the output path before the first run: none, one
\* written by an earlier run of Ingestor, one whose Link keeps the hyphens.
InitialFiles ==
    { NoFile,
      [exists |-> TRUE, rows |-> <<Row(CardLink(Id1), Join(TitleProperty(Id1).title), UA)>>],
      [exists |-> TRUE, rows |-> <<Row(LinkPrefix \o Id2, TitleNotFound, UA)>>] }

(***************************************************************************)
(* The functions wrapping the API.                                         *)
(***************************************************************************)
NoJson == [none |-> TRUE]

\* get_database_items: None unless the status is 200.
get_database_items(resp) ==
    IF resp.status # 200 THEN NoJson ELSE [none |-> FALSE, json |-> resp.body]

\* get_page_blocks: None unless the status is 200.
get_page_blocks(resp) ==
    IF resp.status # 200 THEN NoJson ELSE [none |-> FALSE, json |-> resp.body]

\* update_card_property: the truth of "status is 200".
update_card_property(resp) == resp.status = 200

\* verify_card_property trusting the status of the re-read alone.
verify_card_property_StatusOnly(resp, expected_orga_id) == resp.status = 200

\* verify_card_property comparing the first run of text alone.
verify_card_property_FirstPart(resp, expected_orga_id) ==
    IF resp.status # 200 THEN FALSE
    ELSE /\ resp.body.orga_rich_text # <<>>
         /\ resp.body.orga_rich_text[1] = expected_orga_id

\* verify_card_property without the comparison: any filled field passes.
verify_card_property_AnyText(resp, expected_orga_id) ==
    IF resp.status # 200 THEN FALSE ELSE resp.body.orga_rich_text # <<>>

\* verify_card_property: re-read of the card, exact comparison of the joined
\* text.  An 'ORGA ID*' that is absent and one whose rich_text is empty are
\* both the empty orga_rich_text here: the code returns False for both.
verify_card_property(resp, expected_orga_id) ==
    IF resp.status # 200 THEN FALSE
    ELSE /\ resp.body.orga_rich_text # <<>>
         /\ Join(resp.body.orga_rich_text) = expected_orga_id

\* The test of 'ORGA ID*' reading a property the card does not have.
AlreadyFilled_WrongKey(it) == FALSE

\* "if orga_id_property and orga_id_property.get('rich_text')"
AlreadyFilled(it) == it.orga_rich_text # <<>>

\* The membership test left out.
AlreadyProcessed_Never(page_id, processed_ids) == FALSE

\* "if page_id in processed_ids"
AlreadyProcessed(page_id, processed_ids) == page_id \in processed_ids

\* The title of a card, or the placeholder.
CardTitle(it) ==
    IF it.title_property.present THEN Join(it.title_property.title) ELSE TitleNotFound

(***************************************************************************)
(* Harness for the extractors: one block sequence, both functions applied. *)
(***************************************************************************)
ExOff == [pc |-> "off", blocks |-> <<>>, de |-> <<>>, ing |-> <<>>]

ApplyDataExtractor ==
    /\ ex.pc \in {"input", "ing"}
    /\ ex' = [ex EXCEPT !.pc = IF ex.pc = "input" THEN "de" ELSE "both",
                        !.de = <<extract_org_id_from_blocks_DE(ex.blocks)>>]
    /\ UNCHANGED <<variant, remote, csv, run, pc, loc, page, item, bar, console, obs>>

ApplyIngestorExtractor ==
    /\ ex.pc \in {"input", "de"}
    /\ ex' = [ex EXCEPT !.pc = IF ex.pc = "input" THEN "ing" ELSE "both",
                        !.ing = <<extract_org_id_from_blocks_IN(ex.blocks)>>]
    /\ UNCHANGED <<variant, remote, csv, run, pc, loc, page, item, bar, console, obs>>

NextExtract == ApplyDataExtractor \/ ApplyIngestorExtractor


(***************************************************************************)
(* State of a run.                                                         *)
(***************************************************************************)
LocInit ==
    [start_cursor |-> NoCursor, all_card_info |-> <<>>, total_cards |-> 0,
     processed_ids |-> {}]

NoPage ==
    [results |-> <<>>, has_more |-> FALSE, next_cursor |-> NoCursor, idx |-> 1,
     card_info_list |-> <<>>]

NoItem == [id |-> None, title |-> None, link |-> None, org_id |-> None]

NoBar == [n |-> 0, total |-> 0, open |-> FALSE]

\* The entry the for loop took last: the calls issued for it, what update and
\* verify returned ("-" when not called), how many records it appended, and
\* its outcome ("none" while it is being processed), whether get_page_blocks
\* returned None for it, whether the re-read of verify answered 200.
LastInit ==
    [id |-> None, outcome |-> "none", calls |-> <<>>, appended |-> 0,
     ret_update |-> "-", ret_verify |-> "-", blocks_failed |-> FALSE,
     refetched |-> "-"]

NoPrev == [completed |-> FALSE, recorded |-> {}, passed |-> {}, processed_ids |-> {}]

ObsInit ==
    [pages |-> 0, passed |-> 0,
     nupdate |-> [i \in Ids |-> 0], nverify |-> [i \in Ids |-> 0],
     last |-> LastInit, seen |-> {}, recorded |-> {}, wrote_file |-> FALSE,
     listing_failed |-> FALSE, prev |-> NoPrev]

Say(msg, card) == [msg |-> msg, card |-> card]

NoLine == Say("", None)

BoolText(b) == IF b THEN "True" ELSE "False"

\* The entry `id` is taken by the for loop.
ObsTake(o, id) ==
    [o EXCEPT !.passed = @ + 1, !.seen = @ \cup {id}, !.last = [LastInit EXCEPT !.id = id]]

\* progress_bar.update(1), and the loop goes to its next element.
ProgressUpdate(b) == [b EXCEPT !.n = @ + 1]

NextElement(pg) == [pg EXCEPT !.idx = @ + 1]

(***************************************************************************)
(* main(): start, initial query, pagination loop.                          *)
(***************************************************************************)
main_start_DE ==
    /\ pc = "start" /\ variant = "readonly"
    /\ loc' = LocInit
    /\ pc' = "initial"
    /\ UNCHANGED <<variant, remote, csv, run, page, item, bar, console, obs, ex>>

main_start_IN ==
    /\ pc = "start" /\ variant = "writeback"
    /\ loc' = [LocInit EXCEPT !.processed_ids = LoadProcessedIds(csv)]
    /\ pc' = "initial"
    /\ UNCHANGED <<variant, remote, csv, run, page, item, bar, console, obs, ex>>

\* The initial query without the "return": the failure is printed and the
\* run goes on to the pagination loop.
initial_query_GoesOn(v) ==
    /\ pc = "initial" /\ variant = v
    /\ \E resp \in InitialResponses :
         LET initial_response == get_database_items(resp)
         IN  IF initial_response.none
             THEN /\ console' = Say("Error during initial request", None)
                  /\ bar' = [n |-> 0, total |-> 0, open |-> TRUE]
                  /\ pc' = "query"
                  /\ UNCHANGED loc
             ELSE /\ loc' = [loc EXCEPT !.total_cards = GetTotal(initial_response.json)]
                  /\ bar' = [n |-> 0, total |-> GetTotal(initial_response.json), open |-> TRUE]
                  /\ pc' = "query"
                  /\ UNCHANGED console
    /\ UNCHANGED <<variant, remote, csv, run, page, item, obs, ex>>

\* initial_response = get_database_items(DATABASE_ID); return on None; else
\* total_cards and the progress bar.
initial_query(v) ==
    /\ pc = "initial" /\ variant = v
    /\ \E resp \in InitialResponses :
         LET initial_response == get_database_items(resp)
         IN  IF initial_response.none
             THEN /\ console' = Say("Error during initial request", None)
                  /\ pc' = "returned"
                  /\ UNCHANGED <<loc, bar>>
             ELSE /\ loc' = [loc EXCEPT !.total_cards = GetTotal(initial_response.json)]
                  /\ bar' = [n |-> 0, total |-> GetTotal(initial_response.json), open |-> TRUE]
                  /\ pc' = "query"
                  /\ UNCHANGED console
    /\ UNCHANGED <<variant, remote, csv, run, page, item, obs, ex>>

initial_query_DE == initial_query("readonly")
initial_query_IN == initial_query("writeback")

\* The loop going on to the next page after a failed query instead of
\* leaving.
query_page_Continue(v) ==
    /\ pc = "query" /\ variant = v
    /\ \E resp \in QueryResponses :
         LET database_items == get_database_items(resp)
         IN  IF database_items.none
             THEN /\ pc' = "query"
                  /\ console' = Say("Error during API request", None)
                  /\ obs' = [obs EXCEPT !.listing_failed = TRUE]
                  /\ UNCHANGED page
             ELSE /\ page' = [results |-> database_items.json.results,
                              has_more |-> database_items.json.has_more,
                              next_cursor |-> database_items.json.next_cursor,
                              idx |-> 1, card_info_list |-> <<>>]
                  /\ obs' = [obs EXCEPT !.pages =
                                IF database_items.json.results = <<>> THEN @ ELSE @ + 1]
                  /\ pc' = "for"
                  /\ UNCHANGED console
    /\ UNCHANGED <<variant, remote, csv, run, loc, item, bar, ex>>

\* The run given up on a failed query of the loop, as on a failed initial
\* query: "return" in the place of "break".
query_page_Return(v) ==
    /\ pc = "query" /\ variant = v
    /\ \E resp \in QueryResponses :
         LET database_items == get_database_items(resp)
         IN  IF database_items.none
             THEN /\ pc' = "returned"
                  /\ console' = Say("Error during API request", None)
                  /\ obs' = [obs EXCEPT !.listing_failed = TRUE]
                  /\ UNCHANGED page
             ELSE /\ page' = [results |-> database_items.json.results,
                              has_more |-> database_items.json.has_more,
                              next_cursor |-> database_items.json.next_cursor,
                              idx |-> 1, card_info_list |-> <<>>]
                  /\ obs' = [obs EXCEPT !.pages =
                                IF database_items.json.results = <<>> THEN @ ELSE @ + 1]
                  /\ pc' = "for"
                  /\ UNCHANGED console
    /\ UNCHANGED <<variant, remote, csv, run, loc, item, bar, ex>>

\* Top of "while True": database_items = get_database_items(DATABASE_ID,
\* start_cursor); break on None; else extract_card_info starts on the page.
query_page(v) ==
    /\ pc = "query" /\ variant = v
    /\ \E resp \in QueryResponses :
         LET database_items == get_database_items(resp)
         IN  IF database_items.none
             THEN /\ pc' = "export"
                  /\ console' = Say("Error during API request", None)
                  /\ obs' = [obs EXCEPT !.listing_failed = TRUE]
                  /\ UNCHANGED page
             ELSE /\ page' = [results |-> database_items.json.results,
                              has_more |-> database_items.json.has_more,
                              next_cursor |-> database_items.json.next_cursor,
                              idx |-> 1, card_info_list |-> <<>>]
                  /\ obs' = [obs EXCEPT !.pages =
                                IF database_items.json.results = <<>> THEN @ ELSE @ + 1]
                  /\ pc' = "for"
                  /\ UNCHANGED console
    /\ UNCHANGED <<variant, remote, csv, run, loc, item, bar, ex>>

query_page_DE == query_page("readonly")
query_page_IN == query_page("writeback")

\* The for loop is exhausted: extract_card_info returns card_info_list, main
\* extends all_card_info, and leaves the loop unless has_more is truthy.
end_of_page(v) ==
    /\ pc = "for" /\ variant = v
    /\ page.idx > Len(page.results)
    /\ loc' = [loc EXCEPT !.all_card_info = @ \o page.card_info_list,
                          !.start_cursor = IF page.has_more THEN page.next_cursor ELSE @]
    /\ page' = [page EXCEPT !.card_info_list = <<>>]
    /\ pc' = IF page.has_more THEN "query" ELSE "export"
    /\ UNCHANGED <<variant, remote, csv, run, item, bar, console, obs, ex>>

end_of_page_DE == end_of_page("readonly")
end_of_page_IN == end_of_page("writeback")

(***************************************************************************)
(* extract_card_info: one element of the page.                             *)
(***************************************************************************)
\* Data_Extractor: skip when 'ORGA ID*' is filled; else title and link.
next_item_DE ==
    /\ pc = "for" /\ variant = "readonly"
    /\ page.idx <= Len(page.results)
    /\ LET it == page.results[page.idx]
       IN  IF AlreadyFilled(it)
           THEN /\ page' = NextElement(page)
                /\ obs' = [ObsTake(obs, it.id) EXCEPT !.last.outcome = "skipped-already-set"]
                /\ UNCHANGED <<item, pc>>
           ELSE /\ item' = [id |-> it.id, title |-> CardTitle(it),
                            link |-> CardLink(it.id), org_id |-> None]
                /\ obs' = ObsTake(obs, it.id)
                /\ pc' = "blocks"
                /\ UNCHANGED page
    /\ UNCHANGED <<variant, remote, csv, run, loc, bar, console, ex>>

\* Ingestor: skip when 'ORGA ID*' is filled, skip when the id is in
\* processed_ids; else title and link.
next_item_IN ==
    /\ pc = "for" /\ variant = "writeback"
    /\ page.idx <= Len(page.results)
    /\ LET it == page.results[page.idx]
       IN  IF AlreadyFilled(it)
           THEN /\ page' = NextElement(page)
                /\ obs' = [ObsTake(obs, it.id) EXCEPT !.last.outcome = "skipped-already-set"]
                /\ UNCHANGED <<item, pc>>
           ELSE IF AlreadyProcessed(it.id, loc.processed_ids)
           THEN /\ page' = NextElement(page)
                /\ obs' = [ObsTake(obs, it.id) EXCEPT
                               !.last.outcome = "skipped-already-processed"]
                /\ UNCHANGED <<item, pc>>
           ELSE /\ item' = [id |-> it.id, title |-> CardTitle(it),
                            link |-> CardLink(it.id), org_id |-> None]
                /\ obs' = ObsTake(obs, it.id)
                /\ pc' = "blocks"
                /\ UNCHANGED page
    /\ UNCHANGED <<variant, remote, csv, run, loc, bar, console, ex>>

\* Data_Extractor appending the record without the test "if org_id".
get_blocks_DE_NoTest ==
    /\ pc = "blocks" /\ variant = "readonly"
    /\ \E resp \in BlocksResponses(item.id) :
         LET blocks == get_page_blocks(resp)
             org_id == IF blocks.none THEN None
                       ELSE extract_org_id_from_blocks_DE(blocks.json.results)
         IN  /\ item' = [item EXCEPT !.org_id = org_id]
             /\ page' = [NextElement(page) EXCEPT !.card_info_list =
                            Append(@, Row(item.link, item.title, org_id))]
             /\ console' = IF blocks.none
                           THEN Say("Error during API request", item.id) ELSE console
             /\ obs' = [obs EXCEPT
                          !.last.calls = Append(@, "blocks"),
                          !.last.blocks_failed = blocks.none,
                          !.last.appended = 1,
                          !.last.outcome = "recorded",
                          !.recorded = @ \cup {item.id}]
    /\ bar' = ProgressUpdate(bar)
    /\ pc' = "for"
    /\ UNCHANGED <<variant, remote, csv, run, loc, ex>>

\* Data_Extractor leaving the for loop of the page when get_page_blocks
\* returns None.
get_blocks_DE_Break ==
    /\ pc = "blocks" /\ variant = "readonly"
    /\ \E resp \in BlocksResponses(item.id) :
         LET blocks == get_page_blocks(resp)
             org_id == IF blocks.none THEN None
                       ELSE extract_org_id_from_blocks_DE(blocks.json.results)
             found == org_id # None
         IN  /\ item' = [item EXCEPT !.org_id = org_id]
             /\ page' = [page EXCEPT
                            !.idx = IF blocks.none THEN Len(page.results) + 1 ELSE @ + 1,
                            !.card_info_list =
                                IF found THEN Append(@, Row(item.link, item.title, org_id))
                                ELSE @]
             /\ console' = IF blocks.none
                           THEN Say("Error during API request", item.id) ELSE console
             /\ obs' = [obs EXCEPT
                          !.last.calls = Append(@, "blocks"),
                          !.last.blocks_failed = blocks.none,
                          !.last.appended = IF found THEN 1 ELSE 0,
                          !.last.outcome = IF found THEN "recorded" ELSE "no-identifier-found",
                          !.recorded = IF found THEN @ \cup {item.id} ELSE @]
    /\ bar' = ProgressUpdate(bar)
    /\ pc' = "for"
    /\ UNCHANGED <<variant, remote, csv, run, loc, ex>>

\* Data_Extractor: blocks = get_page_blocks(item['id']); the extractor; the
\* record is appended when an identifier was found; progress_bar.update(1).
get_blocks_DE ==
    /\ pc = "blocks" /\ variant = "readonly"
    /\ \E resp \in BlocksResponses(item.id) :
         LET blocks == get_page_blocks(resp)
             org_id == IF blocks.none THEN None
                       ELSE extract_org_id_from_blocks_DE(blocks.json.results)
             found == org_id # None
         IN  /\ item' = [item EXCEPT !.org_id = org_id]
             /\ page' = [NextElement(page) EXCEPT !.card_info_list =
                            IF found THEN Append(@, Row(item.link, item.title, org_id))
                            ELSE @]
             /\ console' = IF blocks.none
                           THEN Say("Error during API request", item.id) ELSE console
             /\ obs' = [obs EXCEPT
                          !.last.calls = Append(@, "blocks"),
                          !.last.blocks_failed = blocks.none,
                          !.last.appended = IF found THEN 1 ELSE 0,
                          !.last.outcome = IF found THEN "recorded" ELSE "no-identifier-found",
                          !.recorded = IF found THEN @ \cup {item.id} ELSE @]
    /\ bar' = ProgressUpdate(bar)
    /\ pc' = "for"
    /\ UNCHANGED <<variant, remote, csv, run, loc, ex>>

\* Ingestor going on to update_card_property without the test "if org_id".
get_blocks_IN_NoTest ==
    /\ pc = "blocks" /\ variant = "writeback"
    /\ \E resp \in BlocksResponses(item.id) :
         LET blocks == get_page_blocks(resp)
             org_id == IF blocks.none THEN None
                       ELSE extract_org_id_from_blocks_IN(blocks.json.results)
         IN  /\ item' = [item EXCEPT !.org_id = org_id]
             /\ console' = IF blocks.none
                           THEN Say("Error during API request", item.id) ELSE console
             /\ obs' = [obs EXCEPT
                          !.last.calls = Append(@, "blocks"),
                          !.last.blocks_failed = blocks.none]
             /\ pc' = "update"
             /\ UNCHANGED <<page, bar>>
    /\ UNCHANGED <<variant, remote, csv, run, loc, ex>>

\* Ingestor: blocks = get_page_blocks(page_id); the extractor; without an
\* identifier the entry ends here with progress_bar.update(1).
get_blocks_IN ==
    /\ pc = "blocks" /\ variant = "writeback"
    /\ \E resp \in BlocksResponses(item.id) :
         LET blocks == get_page_blocks(resp)
             org_id == IF blocks.none THEN None
                       ELSE extract_org_id_from_blocks_IN(blocks.json.results)
             found == org_id # None
         IN  /\ item' = [item EXCEPT !.org_id = org_id]
             /\ console' = IF blocks.none
                           THEN Say("Error during API request", item.id) ELSE console
             /\ obs' = [obs EXCEPT
                          !.last.calls = Append(@, "blocks"),
                          !.last.blocks_failed = blocks.none,
                          !.last.outcome = IF found THEN @ ELSE "no-identifier-found"]
             /\ IF found
                THEN /\ pc' = "update"
                     /\ UNCHANGED <<page, bar>>
                ELSE /\ page' = NextElement(page)
                     /\ bar' = ProgressUpdate(bar)
                     /\ pc' = "for"
    /\ UNCHANGED <<variant, remote, csv, run, loc, ex>>

\* Ingestor: update_card_property(page_id, org_id); on False the failure is
\* printed and the entry ends with progress_bar.update(1).
update_card_IN ==
    /\ pc = "update" /\ variant = "writeback"
    /\ \E effect \in UpdateEffects :
         LET ok == update_card_property(UpdateResponse(effect))
         IN  /\ remote' = [remote EXCEPT !.field[item.id] =
                              FieldAfterUpdate(@, item.org_id, effect)]
             /\ obs' = [obs EXCEPT
                          !.nupdate[item.id] = @ + 1,
                          !.last.calls = Append(@, "update"),
                          !.last.ret_update = BoolText(ok),
                          !.last.outcome = IF ok THEN @ ELSE "write-failed"]
             /\ IF ok
                THEN /\ pc' = "verify"
                     /\ UNCHANGED <<page, bar, console>>
                ELSE /\ console' = Say("Failed to update", item.id)
                     /\ page' = NextElement(page)
                     /\ bar' = ProgressUpdate(bar)
                     /\ pc' = "for"
    /\ UNCHANGED <<variant, csv, run, loc, item, ex>>

\* Ingestor: verify_card_property(page_id, org_id); on True the confirmation
\* is printed and the record appended, on False the failure is printed;
\* progress_bar.update(1).
verify_card_IN ==
    /\ pc = "verify" /\ variant = "writeback"
    /\ \E resp \in PageResponses(item.id) :
         LET ok == verify_card_property(resp, item.org_id)
         IN  /\ page' = [NextElement(page) EXCEPT !.card_info_list =
                            IF ok THEN Append(@, Row(item.link, item.title, item.org_id))
                            ELSE @]
             /\ console' = Say(IF ok THEN "was updated" ELSE "Failed to verify", item.id)
             /\ obs' = [obs EXCEPT
                          !.nverify[item.id] = @ + 1,
                          !.last.calls = Append(@, "verify"),
                          !.last.ret_verify = BoolText(ok),
                          !.last.refetched = BoolText(resp.status = 200),
                          !.last.appended = IF ok THEN 1 ELSE 0,
                          !.last.outcome = IF ok THEN "recorded" ELSE "verify-failed",
                          !.recorded = IF ok THEN @ \cup {item.id} ELSE @]
    /\ bar' = ProgressUpdate(bar)
    /\ pc' = "for"
    /\ UNCHANGED <<variant, remote, csv, run, loc, item, ex>>

(***************************************************************************)
(* main(): the export step.                                                *)
(***************************************************************************)
\* The export step writing the file whatever all_card_info holds.
export_Always(v, written_msg, none_msg) ==
    /\ pc = "export" /\ variant = v
    /\ bar' = [bar EXCEPT !.open = FALSE]
    /\ csv' = [exists |-> TRUE, rows |-> loc.all_card_info]
    /\ console' = Say(written_msg, None)
    /\ obs' = [obs EXCEPT !.wrote_file = TRUE]
    /\ pc' = "done"
    /\ UNCHANGED <<variant, remote, run, loc, page, item, ex>>

\* progress_bar.close(); the file is written when all_card_info is not
\* empty, else the message is printed.
export(v, written_msg, none_msg) ==
    /\ pc = "export" /\ variant = v
    /\ bar' = [bar EXCEPT !.open = FALSE]
    /\ IF loc.all_card_info # <<>>
       THEN /\ csv' = [exists |-> TRUE, rows |-> loc.all_card_info]
            /\ console' = Say(written_msg, None)
            /\ obs' = [obs EXCEPT !.wrote_file = TRUE]
       ELSE /\ console' = Say(none_msg, None)
            /\ UNCHANGED <<csv, obs>>
    /\ pc' = "done"
    /\ UNCHANGED <<variant, remote, run, loc, page, item, ex>>

export_DE ==
    export("readonly", "Card information has been written to orga_ids.csv",
           "No cards were found with an organization ID in the body.")

export_IN ==
    export("writeback", "Card information has been written to V2.csv",
           "No cards were found without the 'ORGA ID*' property.")

\* The script is invoked again.
next_run ==
    /\ pc \in {"done", "returned"}
    /\ run < MaxRuns
    /\ run' = run + 1
    /\ pc' = "start"
    /\ loc' = LocInit
    /\ page' = NoPage
    /\ item' = NoItem
    /\ bar' = NoBar
    /\ console' = NoLine
    /\ obs' = [ObsInit EXCEPT
                  !.pages = obs.pages,
                  !.prev = [completed |-> pc = "done", recorded |-> obs.recorded,
                            passed |-> obs.seen, processed_ids |-> loc.processed_ids]]
    /\ UNCHANGED <<variant, remote, csv, ex>>

(***************************************************************************)
(* Specifications.                                                         *)
(***************************************************************************)
Init ==
    /\ variant \in {"readonly", "writeback"}
    /\ remote \in InitialRemotes
    /\ csv \in InitialFiles
    /\ run = 1
    /\ pc = "start"
    /\ loc = LocInit
    /\ page = NoPage
    /\ item = NoItem
    /\ bar = NoBar
    /\ console = NoLine
    /\ obs = ObsInit
    /\ ex = ExOff

Next ==
    \/ main_start_DE
    \/ main_start_IN
    \/ initial_query_DE
    \/ initial_query_IN
    \/ query_page_DE
    \/ query_page_IN
    \/ end_of_page_DE
    \/ end_of_page_IN
    \/ next_item_DE
    \/ next_item_IN
    \/ get_blocks_DE
    \/ get_blocks_IN
    \/ update_card_IN
    \/ verify_card_IN
    \/ export_DE
    \/ export_IN
    \/ next_run

Spec == Init /\ [][Next]_vars

\* The extractors applied to every block sequence of BlockSeqs.
InitExtract ==
    /\ variant = "readonly"
    /\ remote = [field |-> [i \in Ids |-> <<>>],
                 blocks |-> [i \in Ids |-> <<>>]]
    /\ csv = NoFile
    /\ run = 1
    /\ pc = "off"
    /\ loc = LocInit
    /\ page = NoPage
    /\ item = NoItem
    /\ bar = NoBar
    /\ console = NoLine
    /\ obs = ObsInit
    /\ ex \in [pc : {"input"}, blocks : BlockSeqs, de : {<<>>}, ing : {<<>>}]

SpecExtract == InitExtract /\ [][NextExtract]_vars

\* The steps of the script itself.  The script is sequential and every call
\* it makes returns, so a step that can be taken is taken; nothing obliges
\* anyone to invoke the script again.
Step ==
    \/ main_start_DE \/ main_start_IN \/ initial_query_DE \/ initial_query_IN
    \/ query_page_DE \/ query_page_IN \/ end_of_page_DE \/ end_of_page_IN
    \/ next_item_DE \/ next_item_IN \/ get_blocks_DE \/ get_blocks_IN
    \/ update_card_IN \/ verify_card_IN \/ export_DE \/ export_IN

\* Runs of either script on one database with no output file yet.
InitFair ==
    /\ Init
    /\ csv = NoFile
    /\ remote.field[Id2] = <<>>
    /\ remote.blocks[Id2] = WithoutIdentifier

FairSpec == InitFair /\ [][Next]_vars /\ WF_vars(Step)

(***************************************************************************)
(* Properties.                                                             *)
(***************************************************************************)
\* The Result Records accumulated so far in the run: those of the pages
\* done and those of the page in progress.
Records == loc.all_card_info \o page.card_info_list

InEntry == pc \in {"blocks", "update", "verify"}

AtElement == pc = "for" /\ page.idx <= Len(page.results)

SameRun == run' = run

\* C1: in the write-back variant a step appends a Result Record if and only
\* if it is the verify step of an entry whose update returned True and whose
\* verify returns True; the record is then the entry's, and the field read
\* back equals the identifier exactly.  Every other step of an entry (no
\* identifier, update False, verify False) appends none.
C1_RecordedIffWrittenAndVerified ==
    [][(variant = "writeback" /\ SameRun) =>
         LET grown == Len(Records') - Len(Records)
             verified == /\ pc = "verify"
                         /\ obs.last.ret_update = "True"
                         /\ obs'.last.ret_verify = "True"
         IN  /\ grown \in {0, 1}
             /\ (grown = 1) <=> verified
             /\ verified =>
                  /\ Records' = Append(Records, Row(CardLink(item.id), item.title, item.org_id))
                  /\ remote.field[item.id] # <<>>
                  /\ Join(remote.field[item.id]) = item.org_id
                  /\ obs'.last.calls = <<"blocks", "update", "verify">>
             /\ (InEntry /\ ~verified) => Records' = Records]_vars

C1_Witness ==
    /\ variant = "writeback"
    /\ obs.last.outcome = "recorded"
    /\ obs.last.ret_update = "True" /\ obs.last.ret_verify = "True"
    /\ Len(Records) = 1

\* C2: in both variants an entry listed with a non-empty 'ORGA ID*' is
\* passed over: no call is issued for it, no record is appended, and the
\* code is never inside the processing of such an entry.
C2_FilledEntrySkipped ==
    /\ [][(AtElement /\ page.results[page.idx].orga_rich_text # <<>>) =>
            /\ pc' = "for"
            /\ page'.idx = page.idx + 1
            /\ Records' = Records
            /\ remote' = remote
            /\ obs'.last.id = page.results[page.idx].id
            /\ obs'.last.calls = <<>>]_vars
    /\ [](InEntry => page.results[page.idx].orga_rich_text = <<>>)

C2_Witness ==
    /\ obs.last.outcome = "skipped-already-set"
    /\ obs.last.calls = <<>>
    /\ obs.passed = 2

\* C3: at the end of a run the progress bar has advanced once per entry
\* taken by the for loop.
C3_ProgressCountsEveryEntry ==
    pc \in {"export", "done"} => bar.n = obs.passed

\* C5: in the write-back variant an entry whose id is in processed_ids is
\* passed over before any call: no blocks-fetch, no update, no verify, no
\* record; the code is never inside the processing of such an entry.
C5_ProcessedEntrySkipped ==
    /\ [][(variant = "writeback" /\ AtElement
             /\ page.results[page.idx].id \in loc.processed_ids) =>
            /\ pc' = "for"
            /\ page'.idx = page.idx + 1
            /\ Records' = Records
            /\ remote' = remote
            /\ obs'.last.id = page.results[page.idx].id
            /\ obs'.last.calls = <<>>
            /\ obs'.nupdate = obs.nupdate /\ obs'.nverify = obs.nverify]_vars
    /\ []((variant = "writeback" /\ InEntry) => item.id \notin loc.processed_ids)

C5_Witness ==
    /\ variant = "writeback"
    /\ obs.last.outcome = "skipped-already-processed"
    /\ obs.last.id \in loc.processed_ids
    /\ obs.last.calls = <<>>

\* C4 (as amended): in the write-back variant an entry recorded by the
\* previous run has a filled 'ORGA ID*', so the next run passes it over as
\* already set whenever it lists it: no call for it, no update, no record.
\* For any entry the run after the first takes, recorded before or not, the
\* outcome is skipped-already-set exactly when its 'ORGA ID*' is not empty
\* (as it is after an update that stored a text and a verify that returned
\* False); an entry whose field is empty is skipped as already processed
\* when its id is in processed_ids, and else has its blocks fetched again.
C4_SecondRunSkipsFilledEntries ==
    /\ [](variant = "writeback" =>
            \A id \in obs.prev.recorded :
                /\ remote.field[id] # <<>>
                /\ obs.nupdate[id] = 0 /\ obs.nverify[id] = 0
                /\ id \notin obs.recorded
                /\ obs.last.id = id =>
                     obs.last.outcome = "skipped-already-set" /\ obs.last.calls = <<>>)
    /\ [][(variant = "writeback" /\ run >= 2 /\ AtElement) =>
            LET it == page.results[page.idx]
                filled == remote.field[it.id] # <<>>
            IN  /\ it.orga_rich_text = remote.field[it.id]
                /\ obs'.last.id = it.id
                /\ (obs'.last.outcome = "skipped-already-set") <=> filled
                /\ filled => (pc' = "for" /\ remote' = remote /\ Records' = Records)
                /\ (~filled /\ it.id \in loc.processed_ids) =>
                      (pc' = "for" /\ obs'.last.outcome = "skipped-already-processed")
                /\ (~filled /\ it.id \notin loc.processed_ids) =>
                      (pc' = "blocks" /\ item'.id = it.id /\ obs'.last.outcome = "none")]_vars
    /\ [][(variant = "writeback" /\ run >= 2 /\ pc = "blocks") =>
            obs'.last.calls = <<"blocks">>]_vars

\* The second run has passed over the entry the first run recorded, and has
\* fetched the blocks of and updated again the entry the first run took and
\* did not record, its 'ORGA ID*' having stayed empty.
C4_Witness ==
    /\ variant = "writeback" /\ run = 2
    /\ obs.prev.completed
    /\ obs.prev.recorded = {Id1} /\ obs.prev.passed = {Id1, Id2}
    /\ obs.seen = {Id1, Id2}
    /\ obs.nupdate[Id1] = 0
    /\ obs.last.id = Id2
    /\ obs.last.calls = <<"blocks", "update">>
    /\ obs.nupdate[Id2] = 1

\* C4 (as claimed): on the run after a completed run, every entry the
\* completed run had taken is skipped as already set, and no update is
\* issued.
C4_SecondRunSkipsEveryEntry ==
    (variant = "writeback" /\ run >= 2 /\ obs.prev.completed) =>
        \A id \in obs.prev.passed :
            /\ obs.nupdate[id] = 0
            /\ id \notin obs.recorded
            /\ obs.last.id = id => obs.last.outcome = "skipped-already-set"

\* C6: no entry has two records among the Result Records of a run.
C6_NoEntryTwice ==
    \A i, j \in 1..Len(Records) : i # j => Records[i].Link # Records[j].Link

\* C7: in the write-back variant an entry receives at most one update call
\* and at most one verify call in a run.
C7_AtMostOneWriteAndVerify ==
    variant = "writeback" =>
        \A id \in Ids : obs.nupdate[id] <= 1 /\ obs.nverify[id] <= 1

\* C9: when no Result Record was accumulated, the export step leaves the
\* output file as it was and prints the variant's "No cards were found"
\* line; the file, when it exists, always holds at least one data row.
NoCardsLines ==
    {Say("No cards were found with an organization ID in the body.", None),
     Say("No cards were found without the 'ORGA ID*' property.", None)}

C9_EmptyResultWritesNoFile ==
    /\ [][(pc = "export" /\ Records = <<>>) =>
            /\ csv' = csv
            /\ console' \in NoCardsLines
            /\ obs'.wrote_file = FALSE
            /\ pc' = "done"]_vars
    /\ [](csv.exists => csv.rows # <<>>)
    /\ []((pc = "done" /\ ~obs.wrote_file) => console \in NoCardsLines)

C9_Witness ==
    /\ pc = "done"
    /\ Records = <<>>
    /\ obs.passed > 0
    /\ csv.exists /\ ~obs.wrote_file
    /\ console \in NoCardsLines

\* C10 (as claimed): once the initial query has succeeded, the run reaches
\* its export step, whatever the queries of the loop answer.
C10_AlwaysReachesExport == (pc = "query") ~> (pc = "export")

\* The steps extract_card_info still has to take on the page at most: four
\* for each element left, less those taken on the current one.
StepsLeftOnPage ==
    4 * (Len(page.results) + 1 - page.idx)
        + (CASE pc = "for" -> 3 [] pc = "blocks" -> 2 [] pc = "update" -> 1 [] OTHER -> 0)

\* C10 (as amended): the pagination loop is left for the export step as soon
\* as a query fails or a page with a false has_more has been gone through,
\* whatever the calls for its entries return: a run that has not ended can
\* always take a step, every step on a page brings the end of the page
\* nearer, a failed query and the end of a page with a false has_more lead
\* to the export step; and a run ends only after its export step or on the
\* failure of the initial query.
C10_ReachesExportWhenListingEnds ==
    /\ [](pc \notin {"done", "returned"} => ENABLED Step)
    /\ [][(pc = "for" \/ InEntry) =>
            \/ /\ pc' = "for" \/ pc' \in {"blocks", "update", "verify"}
               /\ page'.has_more = page.has_more
               /\ page'.results = page.results
               /\ StepsLeftOnPage' < StepsLeftOnPage
               /\ StepsLeftOnPage' >= 3
            \/ /\ pc = "for" /\ ~AtElement
               /\ pc' = IF page.has_more THEN "query" ELSE "export"]_vars
    /\ [][pc = "query" =>
            \/ pc' = "for"
            \/ pc' = "export" /\ console' = Say("Error during API request", None)]_vars
    /\ [][pc = "export" => pc' = "done"]_vars
    /\ [][pc' = "done" => pc = "export"]_vars
    /\ [][pc' = "returned" =>
            pc = "initial" /\ console' = Say("Error during initial request", None)]_vars

C10_Witness ==
    /\ pc = "export"
    /\ console = Say("Error during API request", None)
    /\ obs.passed = 2
    /\ loc.start_cursor # NoCursor

\* C8: each extractor returns the leftmost match of the pattern in the text
\* of the first block, among those of a recognized type, whose text holds a
\* match; blocks of other types are passed over whatever they hold; the
\* result is None when no recognized block holds a match.  A result has the
\* 8-4-4-4-12 shape.
RichTextBearing ==
    {"paragraph", "heading_1", "heading_2", "heading_3", "bulleted_list_item",
     "numbered_list_item", "to_do", "toggle", "callout", "quote"}

MatchingBlocks(blocks) ==
    {i \in 1..Len(blocks) :
        /\ blocks[i].type \in RichTextBearing
        /\ \E s \in 1..Len(Join(blocks[i].rich_text)) : MatchesAt(Join(blocks[i].rich_text), s)}

HasIdShape(t) ==
    /\ Len(t) = 36
    /\ \A k \in 1..36 : IF k \in {9, 14, 19, 24} THEN t[k] = "-" ELSE t[k] \in HexChars

IsEarliestMatch(blocks, result) ==
    IF MatchingBlocks(blocks) = {} THEN result = None
    ELSE LET i == CHOOSE k \in MatchingBlocks(blocks) : \A m \in MatchingBlocks(blocks) : k <= m
             text == Join(blocks[i].rich_text)
             s == CHOOSE k \in 1..Len(text) :
                     MatchesAt(text, k) /\ \A m \in 1..(k - 1) : ~MatchesAt(text, m)
         IN  /\ result = SubSeq(text, s, s + 35)
             /\ HasIdShape(result)

C8_EarliestRecognizedBlockWins ==
    /\ ex.pc \in {"de", "both"} => IsEarliestMatch(ex.blocks, ex.de[1])
    /\ ex.pc \in {"ing", "both"} => IsEarliestMatch(ex.blocks, ex.ing[1])

\* A code block holding an identifier, then a quote holding two: the first
\* of the quote is returned.
C8_Witness ==
    /\ ex.pc = "both"
    /\ Len(ex.blocks) = 2
    /\ ex.blocks[1].type = "code" /\ re_search(BlockText(ex.blocks[1])) = UA
    /\ ex.blocks[2] = [type |-> "quote", rich_text |-> <<UB, <<" ">>, UA>>]
    /\ ex.de[1] = UB /\ ex.ing[1] = UB

\* The entries whose records were accumulated are those the run recorded.
RecordedLinks == {Records[i].Link : i \in 1..Len(Records)}

\* C11: a failed query of the pagination loop leaves the loop for the export
\* step with the accumulated records untouched; after it no page is queried
\* and no entry is taken; the export step writes exactly the records
\* accumulated from the pages gone through before the failure (no file when
\* there are none).
C11_ListingFailureStopsLoop ==
    /\ [][(pc = "query" /\ pc' # "for") =>
            /\ pc' = "export"
            /\ obs' = [obs EXCEPT !.listing_failed = TRUE]
            /\ loc' = loc /\ page' = page /\ remote' = remote /\ csv' = csv]_vars
    /\ [](obs.listing_failed => pc \in {"export", "done"})
    /\ [](pc \in {"query", "export"} => page.card_info_list = <<>>)
    /\ [](RecordedLinks = {CardLink(id) : id \in obs.recorded})
    /\ [][(obs.listing_failed /\ SameRun) =>
            /\ pc = "export" /\ pc' = "done"
            /\ obs'.pages = obs.pages /\ obs'.passed = obs.passed
            /\ obs'.recorded = obs.recorded
            /\ remote' = remote
            /\ loc' = loc
            /\ csv' = IF loc.all_card_info # <<>>
                      THEN [exists |-> TRUE, rows |-> loc.all_card_info]
                      ELSE csv]_vars

\* A page with a true has_more gave a record, the next query failed, and the
\* file holds that record.
C11_Witness ==
    /\ pc = "done"
    /\ obs.listing_failed
    /\ page.has_more
    /\ obs.wrote_file
    /\ Len(loc.all_card_info) = 1
    /\ csv.rows = loc.all_card_info

\* C12: when get_page_blocks returns None for an entry, the entry ends there
\* as not recorded: no update and no verify is issued for it, no record is
\* appended, the remote is untouched; the for loop goes on to the next
\* element of the same page, and at the end of the page the loop goes on to
\* the next query when has_more is true.
C12_BlocksFailureSkipsOnlyTheEntry ==
    /\ [][(pc = "blocks" /\ obs'.last.blocks_failed) =>
            /\ pc' = "for"
            /\ page' = [page EXCEPT !.idx = @ + 1]
            /\ Records' = Records
            /\ remote' = remote /\ csv' = csv /\ loc' = loc
            /\ obs'.nupdate = obs.nupdate /\ obs'.nverify = obs.nverify
            /\ obs'.recorded = obs.recorded
            /\ obs'.last.id = item.id
            /\ obs'.last.outcome = "no-identifier-found"
            /\ obs'.last.calls = <<"blocks">>]_vars
    /\ [](obs.last.blocks_failed =>
            /\ pc \notin {"blocks", "update", "verify"}
            /\ obs.last.calls = <<"blocks">>
            /\ obs.last.ret_update = "-" /\ obs.last.ret_verify = "-"
            /\ obs.last.outcome = "no-identifier-found")
    /\ [][(pc = "for" /\ obs.last.blocks_failed) =>
            IF AtElement
            THEN /\ obs'.last.id = page.results[page.idx].id
                 /\ obs'.passed = obs.passed + 1
                 /\ page'.results = page.results
            ELSE pc' = IF page.has_more THEN "query" ELSE "export"]_vars
    /\ []((pc = "for" /\ obs.last.blocks_failed) => ENABLED Step)

\* The blocks of the first entry of a page could not be fetched (the entry
\* holds an identifier and has no record), and the second entry of the page
\* is being processed.
C12_Witness ==
    /\ pc = "blocks"
    /\ page.idx = 2 /\ item.id = Id2
    /\ console = Say("Error during API request", Id1)
    /\ Records = <<>>
    /\ obs.passed = 2

\* C13: in the write-back variant the calls issued for an entry are a prefix
\* of blocks-fetch, update, verify.  An update is issued only when the
\* blocks-fetch of the entry succeeded and the extractor found an identifier
\* in its blocks (the identifier sent); a verify is issued only when the
\* update returned True; the entry is recorded only when the verify returned
\* True.
C13_CallsInFixedOrder ==
    variant = "writeback" =>
        /\ obs.last.calls \in {<<>>, <<"blocks">>, <<"blocks", "update">>,
                                <<"blocks", "update", "verify">>}
        /\ pc = "blocks" => obs.last.calls = <<>>
        /\ pc = "update" => obs.last.calls = <<"blocks">>
        /\ pc = "verify" => obs.last.calls = <<"blocks", "update">>
        /\ (pc = "update" \/ Len(obs.last.calls) >= 2) =>
              /\ ~obs.last.blocks_failed
              /\ obs.last.id = item.id
              /\ item.org_id # None
        /\ pc = "update" =>
              item.org_id = extract_org_id_from_blocks_IN(remote.blocks[item.id])
        /\ (pc = "verify" \/ Len(obs.last.calls) = 3) => obs.last.ret_update = "True"
        /\ obs.last.ret_update = "-" <=> Len(obs.last.calls) < 2
        /\ obs.last.ret_verify = "-" <=> Len(obs.last.calls) < 3
        /\ obs.last.outcome = "recorded" =>
              /\ obs.last.calls = <<"blocks", "update", "verify">>
              /\ obs.last.ret_verify = "True"
        /\ obs.last.id \in obs.recorded => obs.nverify[obs.last.id] >= 1

\* An entry whose three calls were issued in order, the update having
\* returned True and the verify False.
C13_Witness ==
    /\ variant = "writeback"
    /\ pc = "for"
    /\ obs.last.calls = <<"blocks", "update", "verify">>
    /\ obs.last.ret_update = "True" /\ obs.last.ret_verify = "False"
    /\ obs.last.outcome = "verify-failed"

\* C14: verify_card_property returns True exactly when the re-read of the
\* card answered 200 and the runs of text of 'ORGA ID*' joined are the
\* expected identifier; it returns False when the re-read failed, when the
\* field is empty, when it holds another text.  The verify step changes
\* nothing on the remote; on False it appends no record and prints the
\* failure; so the field of every entry that has a record holds the
\* identifier of the record, and an update that returned True without
\* storing the identifier gives no record.
C14_VerifyTrueOnlyOnExactText ==
    /\ [][(variant = "writeback" /\ pc = "verify") =>
            LET field == remote.field[item.id]
                exact == field # <<>> /\ Join(field) = item.org_id
            IN  /\ obs'.last.ret_verify \in {"True", "False"}
                /\ obs'.last.refetched \in {"True", "False"}
                /\ (obs'.last.ret_verify = "True") <=>
                       (obs'.last.refetched = "True" /\ exact)
                /\ remote' = remote
                /\ obs'.last.ret_verify = "False" =>
                       /\ Records' = Records
                       /\ obs'.recorded = obs.recorded
                       /\ obs'.last.outcome = "verify-failed"
                       /\ console' = Say("Failed to verify", item.id)
                /\ obs'.last.ret_verify = "True" =>
                       /\ Len(Records') = Len(Records) + 1
                       /\ obs'.last.outcome = "recorded"]_vars
    /\ [](variant = "writeback" =>
            \A i \in 1..Len(Records) : \A id \in Ids :
                Records[i].Link = CardLink(id) =>
                    /\ id \in obs.recorded
                    /\ remote.field[id] # <<>>
                    /\ Join(remote.field[id]) = Records[i].OrgID)

\* The update returned True, the re-read answered 200 with a field holding
\* another text, verify returned False and the entry has no record.
C14_Witness ==
    /\ variant = "writeback"
    /\ obs.last.ret_update = "True"
    /\ obs.last.refetched = "True"
    /\ obs.last.ret_verify = "False"
    /\ remote.field[obs.last.id] # <<>>
    /\ obs.last.id \notin obs.recorded
    /\ Records = <<>>

\* C15: in the read-only variant no step changes the remote and no update
\* or verify is issued.  An element listed with a filled 'ORGA ID*' gives no
\* record; one listed with an empty field has its blocks fetched, and its
\* record is appended if and only if the fetch succeeded and the extractor
\* found an identifier in the blocks; no other step of the run adds or
\* removes a record.
C15_ReadOnlyRecordsIffIdentifierFound ==
    /\ [][variant = "readonly" =>
            /\ remote' = remote
            /\ obs'.nupdate = [i \in Ids |-> 0] /\ obs'.nverify = [i \in Ids |-> 0]]_vars
    /\ [](variant = "readonly" => pc \notin {"update", "verify"})
    /\ [][(variant = "readonly" /\ AtElement) =>
            LET it == page.results[page.idx]
            IN  /\ Records' = Records
                /\ obs'.last.id = it.id
                /\ IF it.orga_rich_text # <<>>
                   THEN pc' = "for" /\ page'.idx = page.idx + 1
                   ELSE pc' = "blocks" /\ item'.id = it.id /\ page' = page]_vars
    /\ [][(variant = "readonly" /\ pc = "blocks") =>
            LET found == extract_org_id_from_blocks_DE(remote.blocks[item.id])
                recorded == ~obs'.last.blocks_failed /\ found # None
            IN  /\ page.results[page.idx].id = item.id
                /\ page.results[page.idx].orga_rich_text = <<>>
                /\ Records' = IF recorded
                              THEN Append(Records, Row(CardLink(item.id), item.title, found))
                              ELSE Records
                /\ (obs'.last.outcome = "recorded") <=> recorded
                /\ pc' = "for" /\ page'.idx = page.idx + 1]_vars
    /\ [][(variant = "readonly" /\ SameRun /\ pc # "blocks") => Records' = Records]_vars

\* The read-only variant has recorded an entry and has left one whose blocks
\* hold no identifier; the fields of both are still empty on the remote.
C15_Witness ==
    /\ variant = "readonly"
    /\ pc = "done"
    /\ obs.recorded = {Id1}
    /\ obs.seen = {Id1, Id2}
    /\ obs.last.id = Id2 /\ obs.last.outcome = "no-identifier-found"
    /\ ~obs.last.blocks_failed
    /\ remote.field[Id1] = <<>> /\ remote.field[Id2] = <<>>

\* C16: on every block sequence the extractor of Data_Extractor (re.search)
\* and the extractor of Ingestor (first element of re.findall) return the
\* same result: the same identifier, or None both.
C16_ExtractorsAgree ==
    ex.pc = "both" => ex.de = ex.ing

\* One paragraph holding two identifiers: both extractors return the first.
C16_Witness ==
    /\ ex.pc = "both"
    /\ ex.blocks = <<[type |-> "paragraph", rich_text |-> <<UB, <<" ">>, UA>>]>>
    /\ Len(re_findall(BlockText(ex.blocks[1]))) = 2
    /\ ex.de = <<UB>> /\ ex.ing = <<UB>>

\* C17: the initial query either succeeds and the run enters the pagination
\* loop, or fails, and then the failure is printed and the run has ended: no
\* query of the loop, no entry taken, no blocks-fetch, no update, no verify,
\* no record, and the output file and the remote are as they were at the
\* start of the run; nothing follows in the run.
C17_InitialFailureEndsRun ==
    /\ [][pc = "initial" =>
            /\ pc' \in {"returned", "query"}
            /\ (pc' = "returned") <=> (console' = Say("Error during initial request", None))
            /\ pc' = "returned" =>
                  /\ csv' = csv /\ remote' = remote /\ obs' = obs
                  /\ loc' = loc /\ page' = page /\ item' = item /\ bar' = bar]_vars
    /\ [](pc = "returned" =>
            /\ console = Say("Error during initial request", None)
            /\ obs.passed = 0 /\ obs.seen = {} /\ obs.recorded = {}
            /\ obs.last = LastInit
            /\ obs.nupdate = [i \in Ids |-> 0] /\ obs.nverify = [i \in Ids |-> 0]
            /\ ~obs.wrote_file /\ ~obs.listing_failed
            /\ Records = <<>>
            /\ page = NoPage /\ bar = NoBar)
    /\ [](pc \in {"start", "initial"} =>
            obs.passed = 0 /\ ~obs.wrote_file /\ Records = <<>> /\ page = NoPage)
    /\ [][pc = "returned" => (run' = run + 1 /\ csv' = csv /\ remote' = remote)]_vars

\* The initial query of the second run failed: the file written by the first
\* run is there as the first run left it.
C17_Witness ==
    /\ pc = "returned"
    /\ run = 2
    /\ obs.prev.completed /\ obs.prev.recorded = {Id1}
    /\ csv.exists /\ Len(csv.rows) = 1 /\ csv.rows[1].Link = CardLink(Id1)
    /\ console = Say("Error during initial request", None)

\* C18: in the write-back variant, in a run that follows a completed run,
\* every entry the completed run recorded is in processed_ids: the trailing
\* segment of the Link exported for it is the id of the membership test; and
\* such an entry, when it is listed with an empty 'ORGA ID*', is skipped as
\* already processed.
C18_RecordedIdsAreProcessedIds ==
    (variant = "writeback" /\ run >= 2 /\ obs.prev.completed /\ pc # "start") =>
        \A id \in obs.prev.recorded :
            /\ TrailingSegment(CardLink(id)) = id
            /\ AlreadyProcessed(id, loc.processed_ids)
            /\ (obs.last.id = id /\ obs.last.outcome # "skipped-already-set") =>
                  obs.last.outcome = "skipped-already-processed"

\* C19: in the write-back variant every id of the processed_ids of a run is
\* in the processed_ids the next run loads.
C19_ProcessedIdsNeverShrink ==
    (variant = "writeback" /\ run >= 2 /\ pc # "start") =>
        obs.prev.processed_ids \subseteq loc.processed_ids

============================================================================
